---- MODULE Spec2Model ----
(***************************************************************************)
(* Model of src/app.py: the file-backed user store (load_users,            *)
(* save_users, initialize_users_on_startup), the register and login        *)
(* handlers, and the two endpoints guarded by jwt_required().              *)
(*                                                                         *)
(* Every request is handled by its own worker; the workers share the       *)
(* users file.  A handler is split into steps exactly at its accesses to   *)
(* the shared file: the read in load_users, the truncating open() in       *)
(* save_users and the write that json.dump/close performs.                 *)
(***************************************************************************)
EXTENDS Integers, Sequences, FiniteSets, TLC

\* ------------------------------------------------------------------ bounds
NumProcs == 2          \* request workers (one request each)
MaxStarts == 2         \* runs of initialize_users_on_startup
MaxTime == 1           \* clock ticks the model lets pass

Procs == 1..NumProcs

\* ------------------------------------------------------------- input values
None == "<None>"       \* a JSON field that is absent: dict.get gives None

UsernameInputs == {None, "", "alice", "testuser"}
PasswordInputs == {None, "", "pw1", "password123"}

\* Python truthiness of a str-or-None value ("not username")
Truthy(v) == v # None /\ v # ""

\* --------------------------------------------------------------- bcrypt
\* bcrypt.generate_password_hash(password): a salted one-way hash.  The
\* salt is fresh for every call; the model takes the caller's id as salt.
generate_password_hash(password, salt) == [salt |-> salt, digest |-> password]

\* bcrypt.check_password_hash(pw_hash, password): re-hashes password with the
\* salt of pw_hash and compares.  A None password makes bcrypt.hashpw raise
\* TypeError (see LoginHandle).
check_password_hash(pw_hash, password) ==
    generate_password_hash(password, pw_hash.salt) = pw_hash

\* the record initialize_users_on_startup appends; n numbers the startup
SeedRecord(n) ==
    [username |-> "testuser",
     password |-> generate_password_hash("password123", 0 - n)]

\* ------------------------------------------------------------ users file
\* The content of users.json: absent, a complete JSON document, or bytes
\* that are not a JSON document (an empty file right after open(.., 'w'),
\* or a shorter document written over the tail of a longer one).  len is
\* the size of the content, counted in records.
FileAbsent == [kind |-> "absent", users |-> <<>>, len |-> 0]
FileJson(us) == [kind |-> "json", users |-> us, len |-> Len(us)]
FileTorn(n) == [kind |-> "torn", users |-> <<>>, len |-> n]

\* load_users answering a missing file with a default user list
load_users_Default(f) ==
    CASE f.kind = "absent" -> [ok |-> TRUE, users |-> <<SeedRecord(0)>>]
      [] f.kind = "json" -> [ok |-> TRUE, users |-> f.users]
      [] OTHER -> [ok |-> FALSE, users |-> <<>>]

\* load_users taking content it cannot decode for an empty store
load_users_Swallow(f) ==
    CASE f.kind = "json" -> [ok |-> TRUE, users |-> f.users]
      [] OTHER -> [ok |-> TRUE, users |-> <<>>]

\* load_users(): [] when the file does not exist, else json.load, which
\* raises JSONDecodeError on content that is not a JSON document.
load_users(f) ==
    CASE f.kind = "absent" -> [ok |-> TRUE, users |-> <<>>]
      [] f.kind = "json" -> [ok |-> TRUE, users |-> f.users]
      [] OTHER -> [ok |-> FALSE, users |-> <<>>]

\* save_users, first half: open(USERS_FILE, 'w') creates or truncates.
save_users_open(f) == FileTorn(0)

\* save_users, second half: json.dump + close write the document at
\* offset 0 of whatever the file holds by then.
save_users_write(f, us) ==
    IF f.len <= Len(us) THEN FileJson(us) ELSE FileTorn(f.len)

\* HasUser looking at the first record only
HasUser_FirstOnly(us, username) == Len(us) > 0 /\ us[1].username = username

\* any(u['username'] == username for u in users)
HasUser(us, username) == \E i \in 1..Len(us) : us[i].username = username

\* next((u for u in users if u['username'] == username), None): index of
\* the first match, 0 for None
FindUser(us, username) ==
    IF HasUser(us, username)
    THEN CHOOSE i \in 1..Len(us) :
            /\ us[i].username = username
            /\ \A j \in 1..(i-1) : us[j].username # username
    ELSE 0

\* ---------------------------------------------------------------- tokens
\* app.config['JWT_SECRET_KEY'] of this process, and a key it does not have
ServerSecret == "server-key"
OtherSecret == "other-key"

\* JWTManager(app) leaves JWT_ACCESS_TOKEN_EXPIRES at the default of
\* flask_jwt_extended (15 minutes); the model counts it in clock ticks.
JWT_ACCESS_TOKEN_EXPIRES == 1

\* create_access_token(identity=...): the claims sub and iat (exp follows
\* from iat), signed with key.  The signature is the symbolic MAC of the
\* claims under key, so changing a claim leaves a signature that is no
\* longer the MAC of the claims.
Sign(key, sub, iat) == [key |-> key, sub |-> sub, iat |-> iat]
create_access_token(identity, key, t) ==
    [kind |-> "jwt", sub |-> identity, iat |-> t, sig |-> Sign(key, identity, t)]

\* a request without Authorization header, and one whose bearer string is
\* not a JWT at all
NoToken == [kind |-> "missing", sub |-> None, iat |-> 0, sig |-> Sign(None, None, 0)]
Garbage == [kind |-> "garbage", sub |-> None, iat |-> 0, sig |-> Sign(None, None, 0)]

\* the token tok with its identity claim rewritten and its signature kept
Tamper(tok, sub) == [tok EXCEPT !.sub = sub]

\* decoding without verifying the signature
decode_token_NoVerify(tok, key, t) ==
    CASE tok.kind = "missing" -> "missing"
      [] tok.kind = "garbage" -> "invalid"
      [] t >= tok.iat + JWT_ACCESS_TOKEN_EXPIRES -> "expired"
      [] OTHER -> "ok"

\* What jwt_required() makes of the bearer token at time t under key:
\* "missing" (no header), "invalid" (not decodable or signature mismatch),
\* "expired" (signature good, exp passed), "ok".
decode_token(tok, key, t) ==
    CASE tok.kind = "missing" -> "missing"
      [] tok.kind = "garbage" -> "invalid"
      [] tok.sig # Sign(key, tok.sub, tok.iat) -> "invalid"
      [] t >= tok.iat + JWT_ACCESS_TOKEN_EXPIRES -> "expired"
      [] OTHER -> "ok"

\* get_jwt_identity() of a token that decoded "ok"
Identity(tok) == tok.sub

\* ------------------------------------------------------------- responses
NoResp ==
    [status |-> 0, message |-> None, token |-> NoToken, username |-> None,
     data |-> {}]
Resp(status, message) == [NoResp EXCEPT !.status = status, !.message = message]

\* an exception that escapes a handler: Flask answers 500 (and, with
\* debug=True, shows the exception)
JSONDecodeError == Resp(500, "json.JSONDecodeError")
TypeError == Resp(500, "TypeError")

\* the error handlers flask_jwt_extended installs for jwt_required()
JwtError(verdict) ==
    CASE verdict = "missing" -> Resp(401, "Missing Authorization Header")
      [] verdict = "expired" -> Resp(401, "Token has expired")
      [] OTHER -> Resp(422, "Signature verification failed")

\* ------------------------------------------------------- guarded handlers
DeviceInputs == {None, "Laptop"}
FilterInputs == {None, "All", "Battery"}

\* e_waste_data['locations']: id and acceptedTypes of each location
Locations ==
    << {"Laptop", "Smartphone", "TV", "Monitor", "Printer", "Desktop", "Battery", "Cable"},
       {"Smartphone", "Tablet", "Battery", "Cable", "Other"},
       {"Laptop", "Smartphone", "Tablet", "Monitor", "Printer", "Battery", "Cable"},
       {"Laptop", "Desktop", "Monitor", "Smartphone", "Tablet"},
       {"Battery", "Smartphone", "Tablet"} >>

\* body of classify_route: 400 when a field is missing, else the result
ClassifyBody(deviceType, deviceCondition) ==
    IF ~Truthy(deviceType) \/ ~Truthy(deviceCondition)
    THEN Resp(400, "Device type and condition are required.")
    ELSE Resp(200, "You classified a device.")

\* body of get_recycling_locations: the ids of the locations that pass
LocationsBody(device_type_filter) ==
    LET ids == IF Truthy(device_type_filter) /\ device_type_filter # "All"
               THEN {i \in 1..Len(Locations) : device_type_filter \in Locations[i]}
               ELSE 1..Len(Locations)
    IN [Resp(200, "locations") EXCEPT !.data = ids]

\* ------------------------------------------------------------------ state
VARIABLES
    file,      \* content of users.json
    secret,    \* app.config['JWT_SECRET_KEY']
    now,       \* wall clock, in ticks
    pc,        \* pc[p]: where worker p is in its handler
    req,       \* req[p]: the request worker p handles
    users,     \* users[p]: the local list `users` of the handler
    resp,      \* resp[p]: the response worker p sent
    after,     \* after[p]: the workers that had responded when req[p] arrived
    boot,      \* pc of the process running initialize_users_on_startup
    bootUsers, \* its local list `users`
    starts     \* number of startups so far

vars == <<file, secret, now, pc, req, users, resp, after, boot, bootUsers, starts>>

NoReq ==
    [kind |-> "none", username |-> None, password |-> None, token |-> NoToken,
     a |-> None, b |-> None]

RegisterReq(u, pw) == [NoReq EXCEPT !.kind = "register", !.username = u, !.password = pw]
LoginReq(u, pw) == [NoReq EXCEPT !.kind = "login", !.username = u, !.password = pw]
ClassifyReq(tok, t, c) == [NoReq EXCEPT !.kind = "classify", !.token = tok, !.a = t, !.b = c]
LocationsReq(tok, f) == [NoReq EXCEPT !.kind = "locations", !.token = tok, !.a = f]

\* tokens the server handed out so far
Issued == {resp[q].token : q \in {r \in Procs : resp[r].status = 200 /\ req[r].kind = "login"}}

\* bearer tokens a client may present: none, junk, an issued one, an issued
\* one with the identity rewritten, one signed with a key of the client's
TokenInputs ==
    {NoToken, Garbage, create_access_token("alice", OtherSecret, now)}
        \cup Issued
        \cup {Tamper(tok, "mallory") : tok \in Issued}

Init ==
    /\ file = FileAbsent
    /\ secret = ServerSecret
    /\ now = 0
    /\ pc = [p \in Procs |-> "idle"]
    /\ req = [p \in Procs |-> NoReq]
    /\ users = [p \in Procs |-> <<>>]
    /\ resp = [p \in Procs |-> NoResp]
    /\ after = [p \in Procs |-> {}]
    /\ boot = "idle"
    /\ bootUsers = <<>>
    /\ starts = 0

Done(p) == pc[p] = "done"

\* worker p answers r and is finished
Respond(p, r) ==
    /\ pc' = [pc EXCEPT ![p] = "done"]
    /\ resp' = [resp EXCEPT ![p] = r]

\* A request r arrives and is dispatched to a free worker p (workers are
\* taken in order of arrival).
Receive(p, r) ==
    /\ pc[p] = "idle"
    /\ \A q \in Procs : q < p => pc[q] # "idle"
    /\ req' = [req EXCEPT ![p] = r]
    /\ after' = [after EXCEPT ![p] = {q \in Procs : Done(q)}]

\* ---------------------------------------------------------------- register
\* the check of the password forgotten
MissingField_UsernameOnly(username, password) == ~Truthy(username)

\* "if not username or not password"
MissingField(username, password) == ~Truthy(username) \/ ~Truthy(password)

\* lines 138-143: read the body, reject missing fields with 400
RegisterValidate(p) ==
    \E u \in UsernameInputs, pw \in PasswordInputs :
        /\ Receive(p, RegisterReq(u, pw))
        /\ IF MissingField(u, pw)
           THEN Respond(p, Resp(400, "Username and password are required."))
           ELSE /\ pc' = [pc EXCEPT ![p] = "r_load"]
                /\ UNCHANGED resp
        /\ UNCHANGED <<file, secret, now, users, boot, bootUsers, starts>>

\* the record with the hash of the wrong field
NewRecord_HashesUsername(p) ==
    [username |-> req[p].username,
     password |-> generate_password_hash(req[p].username, p)]

\* the record register appends for worker p's request
NewRecord(p) ==
    [username |-> req[p].username,
     password |-> generate_password_hash(req[p].password, p)]

\* the uniqueness check left out
UsernameTaken_Never(us, username) == FALSE

\* line 146: any(u['username'] == username for u in users)
UsernameTaken(us, username) == HasUser(us, username)

\* lines 145-150: load_users, the uniqueness check, hash and append
RegisterLoad(p) ==
    /\ pc[p] = "r_load"
    /\ LET lr == load_users(file) IN
         IF ~lr.ok
         THEN /\ Respond(p, JSONDecodeError)
              /\ UNCHANGED users
         ELSE IF UsernameTaken(lr.users, req[p].username)
         THEN /\ Respond(p, Resp(409, "Username already exists. Please choose a different one."))
              /\ UNCHANGED users
         ELSE /\ users' = [users EXCEPT ![p] = Append(lr.users, NewRecord(p))]
              /\ pc' = [pc EXCEPT ![p] = "r_open"]
              /\ UNCHANGED resp
    /\ UNCHANGED <<file, secret, now, req, after, boot, bootUsers, starts>>

\* line 151, save_users: open(USERS_FILE, 'w')
RegisterSaveOpen(p) ==
    /\ pc[p] = "r_open"
    /\ file' = save_users_open(file)
    /\ pc' = [pc EXCEPT ![p] = "r_write"]
    /\ UNCHANGED <<secret, now, req, users, resp, after, boot, bootUsers, starts>>

\* line 151, save_users: json.dump and close; line 153: answer 201
RegisterSaveWrite(p) ==
    /\ pc[p] = "r_write"
    /\ file' = save_users_write(file, users[p])
    /\ Respond(p, Resp(201, "Registration successful! You can now log in."))
    /\ users' = [users EXCEPT ![p] = <<>>]
    /\ UNCHANGED <<secret, now, req, after, boot, bootUsers, starts>>

\* ------------------------------------------------------------------- login
\* login with a message of its own for an unknown username
LoginResponse_Reveal(us, username, password, key, t) ==
    LET i == FindUser(us, username) IN
      IF i = 0 THEN Resp(401, "Unknown username.")
      ELSE IF password = None THEN TypeError
      ELSE IF ~check_password_hash(us[i].password, password)
      THEN Resp(401, "Invalid username or password.")
      ELSE [Resp(200, "Login successful!") EXCEPT
               !.token = create_access_token(username, key, t),
               !.username = username]

\* lines 162-168 on the loaded list us
LoginResponse(us, username, password, key, t) ==
    LET i == FindUser(us, username) IN
      IF i = 0 THEN Resp(401, "Invalid username or password.")
      ELSE IF password = None THEN TypeError  \* bcrypt.hashpw(None, ..): TypeError
      ELSE IF ~check_password_hash(us[i].password, password)
      THEN Resp(401, "Invalid username or password.")
      ELSE [Resp(200, "Login successful!") EXCEPT
               !.token = create_access_token(username, key, t),
               !.username = username]

\* lines 157-168: the whole handler; its one access to the file is the read
LoginHandle(p) ==
    \E u \in UsernameInputs, pw \in PasswordInputs :
        /\ Receive(p, LoginReq(u, pw))
        /\ LET lr == load_users(file) IN
             IF ~lr.ok
             THEN /\ Respond(p, JSONDecodeError)
                  /\ UNCHANGED users
             ELSE /\ Respond(p, LoginResponse(lr.users, u, pw, secret, now))
                  /\ users' = [users EXCEPT ![p] = lr.users]
        /\ UNCHANGED <<file, secret, now, boot, bootUsers, starts>>

\* --------------------------------------------------------- guarded routes
\* a guard that looks into the user store before it looks at the token
GuardAuth_ReadsStore(p, r) ==
    /\ Receive(p, r)
    /\ LET verdict == decode_token(r.token, secret, now) IN
         IF load_users(file).users = <<>>
         THEN Respond(p, Resp(401, "Unknown user"))
         ELSE IF verdict = "ok"
         THEN /\ pc' = [pc EXCEPT ![p] = "g_body"]
              /\ UNCHANGED resp
         ELSE Respond(p, JwtError(verdict))
    /\ UNCHANGED <<file, secret, now, users, boot, bootUsers, starts>>

\* @jwt_required(): verify the bearer token, or answer with the JWT error
GuardAuth(p, r) ==
    /\ Receive(p, r)
    /\ LET verdict == decode_token(r.token, secret, now) IN
         IF verdict = "ok"
         THEN /\ pc' = [pc EXCEPT ![p] = "g_body"]
              /\ UNCHANGED resp
         ELSE Respond(p, JwtError(verdict))
    /\ UNCHANGED <<file, secret, now, users, boot, bootUsers, starts>>

\* line 171
ClassifyAuth(p) ==
    \E tok \in TokenInputs, t \in DeviceInputs, c \in DeviceInputs :
        GuardAuth(p, ClassifyReq(tok, t, c))

\* line 187
LocationsAuth(p) ==
    \E tok \in TokenInputs, f \in FilterInputs : GuardAuth(p, LocationsReq(tok, f))

\* lines 173-184
ClassifyRun(p) ==
    /\ pc[p] = "g_body"
    /\ req[p].kind = "classify"
    /\ Respond(p, ClassifyBody(req[p].a, req[p].b))
    /\ UNCHANGED <<file, secret, now, req, users, after, boot, bootUsers, starts>>

\* lines 189-197
LocationsRun(p) ==
    /\ pc[p] = "g_body"
    /\ req[p].kind = "locations"
    /\ Respond(p, LocationsBody(req[p].a))
    /\ UNCHANGED <<file, secret, now, req, users, after, boot, bootUsers, starts>>

\* ----------------------------------------------------------------- startup
\* "python app.py" is run: __main__ calls initialize_users_on_startup
StartUp ==
    /\ boot \in {"idle", "crashed"}
    /\ starts < MaxStarts
    /\ starts' = starts + 1
    /\ boot' = "b_load"
    /\ bootUsers' = <<>>
    /\ UNCHANGED <<file, secret, now, pc, req, users, resp, after>>

\* lines 119-122: load_users, "if not users", append the seed record
BootLoad ==
    /\ boot = "b_load"
    /\ LET lr == load_users(file) IN
         IF ~lr.ok
         THEN /\ boot' = "crashed"
              /\ UNCHANGED bootUsers
         ELSE IF lr.users # <<>>
         THEN /\ boot' = "idle"
              /\ UNCHANGED bootUsers
         ELSE /\ boot' = "b_open"
              /\ bootUsers' = Append(lr.users, SeedRecord(starts))
    /\ UNCHANGED <<file, secret, now, pc, req, users, resp, after, starts>>

\* line 123, save_users: open(USERS_FILE, 'w')
BootSaveOpen ==
    /\ boot = "b_open"
    /\ file' = save_users_open(file)
    /\ boot' = "b_write"
    /\ UNCHANGED <<secret, now, pc, req, users, resp, after, bootUsers, starts>>

\* line 123, save_users: json.dump and close
BootSaveWrite ==
    /\ boot = "b_write"
    /\ file' = save_users_write(file, bootUsers)
    /\ boot' = "idle"
    /\ bootUsers' = <<>>
    /\ UNCHANGED <<secret, now, pc, req, users, resp, after, starts>>

\* time passes
Tick ==
    /\ now < MaxTime
    /\ now' = now + 1
    /\ UNCHANGED <<file, secret, pc, req, users, resp, after, boot, bootUsers, starts>>

\* The credential store under concurrent requests: register, login and
\* startup, which are the handlers that touch users.json, interleave freely.
Next ==
    \/ \E p \in Procs : RegisterValidate(p)
    \/ \E p \in Procs : RegisterLoad(p)
    \/ \E p \in Procs : RegisterSaveOpen(p)
    \/ \E p \in Procs : RegisterSaveWrite(p)
    \/ \E p \in Procs : LoginHandle(p)
    \/ StartUp
    \/ BootLoad
    \/ BootSaveOpen
    \/ BootSaveWrite

Spec == Init /\ [][Next]_vars

\* The whole server with a client that sends one request at a time: a
\* request (or a startup) begins only when nothing else is running.
Quiet ==
    /\ \A p \in Procs : pc[p] \in {"idle", "done", "killed"}
    /\ boot \in {"idle", "crashed"}

SeqRegisterValidate(p) == Quiet /\ RegisterValidate(p)
SeqLoginHandle(p) == Quiet /\ LoginHandle(p)
SeqClassifyAuth(p) == Quiet /\ ClassifyAuth(p)
SeqLocationsAuth(p) == Quiet /\ LocationsAuth(p)
SeqStartUp == Quiet /\ StartUp

SeqNext ==
    \/ \E p \in Procs : SeqRegisterValidate(p)
    \/ \E p \in Procs : RegisterLoad(p)
    \/ \E p \in Procs : RegisterSaveOpen(p)
    \/ \E p \in Procs : RegisterSaveWrite(p)
    \/ \E p \in Procs : SeqLoginHandle(p)
    \/ \E p \in Procs : SeqClassifyAuth(p)
    \/ \E p \in Procs : SeqLocationsAuth(p)
    \/ \E p \in Procs : ClassifyRun(p)
    \/ \E p \in Procs : LocationsRun(p)
    \/ SeqStartUp
    \/ BootLoad
    \/ BootSaveOpen
    \/ BootSaveWrite
    \/ Tick

SpecSeq == Init /\ [][SeqNext]_vars

\* ---------------------------------------------------------------- restart
\* line 14 when JWT_SECRET_KEY is not in the environment: secrets.token_hex(32)
\* in the n-th process; every call gives a key never seen before
GeneratedSecret(n) == "generated-" \o ToString(n)

\* a restart that carries the old key over
NextSecret_Same(key, n) == key

\* line 14 in the process that follows one whose key was key
NextSecret(key, n) == IF key = ServerSecret THEN ServerSecret ELSE GeneratedSecret(n)

\* The process is stopped, at whatever point it is, and "python app.py" is
\* run again: requests in flight are never answered, a save_users under way
\* is cut off where it is, the module is imported afresh (line 14) and
\* __main__ calls initialize_users_on_startup.
Restart ==
    /\ starts < MaxStarts
    /\ starts' = starts + 1
    /\ pc' = [p \in Procs |->
                IF pc[p] \in {"idle", "done", "killed"} THEN pc[p] ELSE "killed"]
    /\ users' = [p \in Procs |-> IF pc[p] = "done" THEN users[p] ELSE <<>>]
    /\ secret' = NextSecret(secret, starts + 1)
    /\ boot' = "b_load"
    /\ bootUsers' = <<>>
    /\ UNCHANGED <<file, now, req, resp, after>>

\* the process is up (before the first "python app.py" the module is served
\* by a WSGI runner, which does not run __main__): startup is over and
\* nothing else is being handled
Serving == Quiet /\ boot = "idle"

LiveRegisterValidate(p) == Serving /\ RegisterValidate(p)
LiveLoginHandle(p) == Serving /\ LoginHandle(p)
LiveLocationsAuth(p) == Serving /\ LocationsAuth(p)

\* The credential store of a server that is restarted: one request at a
\* time, and a restart at any point.  The key comes from the environment.
RestartNext ==
    \/ \E p \in Procs : LiveRegisterValidate(p)
    \/ \E p \in Procs : RegisterLoad(p)
    \/ \E p \in Procs : RegisterSaveOpen(p)
    \/ \E p \in Procs : RegisterSaveWrite(p)
    \/ \E p \in Procs : LiveLoginHandle(p)
    \/ BootLoad
    \/ BootSaveOpen
    \/ BootSaveWrite
    \/ Restart

SpecRestart == Init /\ [][RestartNext]_vars

\* The tokens of a server that is restarted: login and a guarded route
\* (both routes sit behind the same jwt_required()), one request at a time,
\* the clock, and a restart at any point.  The key comes from the
\* environment or is generated at import.
InitSecret ==
    /\ file = FileAbsent
    /\ secret \in {ServerSecret, GeneratedSecret(0)}
    /\ now = 0
    /\ pc = [p \in Procs |-> "idle"]
    /\ req = [p \in Procs |-> NoReq]
    /\ users = [p \in Procs |-> <<>>]
    /\ resp = [p \in Procs |-> NoResp]
    /\ after = [p \in Procs |-> {}]
    /\ boot = "idle"
    /\ bootUsers = <<>>
    /\ starts = 0

SecretNext ==
    \/ \E p \in Procs : LiveLoginHandle(p)
    \/ \E p \in Procs : LiveLocationsAuth(p)
    \/ \E p \in Procs : LocationsRun(p)
    \/ BootLoad
    \/ BootSaveOpen
    \/ BootSaveWrite
    \/ Restart
    \/ Tick

SpecSecret == InitSecret /\ [][SecretNext]_vars

\* ================================================================= claims
CountUser(us, username) ==
    Cardinality({i \in 1..Len(us) : us[i].username = username})

IsRegister(p) == req[p].kind = "register"
IsLogin(p) == req[p].kind = "login"
IsGuarded(p) == req[p].kind \in {"classify", "locations"}

\* worker p handles a register request with both fields present
ValidRegister(p) ==
    IsRegister(p) /\ ~MissingField(req[p].username, req[p].password)

\* the workers that handle a valid register request for username
RegistersOf(username) ==
    {p \in Procs : ValidRegister(p) /\ req[p].username = username}

\* no request of S arrived after another request of S had responded
Concurrent(S) == \A p \in S, q \in S : p \notin after[q]

\* C1: when N >= 2 register requests for one username, absent from the store
\* and never seeded, run concurrently and have all responded (none of them
\* having crashed on a half-written file, which is C4's case), exactly one
\* was answered 201, the other N-1 were answered 409 and the document holds
\* exactly one record for the username.
C1_ExactlyOneRegisterWins ==
    \A u \in UsernameInputs :
        LET S == RegistersOf(u) IN
          (/\ Cardinality(S) >= 2
           /\ Concurrent(S)
           /\ \A p \in S : Done(p) /\ resp[p] # JSONDecodeError
           /\ starts = 0)
          => /\ Cardinality({p \in S : resp[p].status = 201}) = 1
             /\ Cardinality({p \in S : resp[p].status = 409}) = Cardinality(S) - 1
             /\ file.kind = "json"
             /\ CountUser(file.users, u) = 1

\* C2: whenever users.json holds a document, no two of its records share a
\* username.
C2_UniqueUsernames ==
    file.kind = "json" =>
        \A i \in 1..Len(file.users), j \in 1..Len(file.users) :
            file.users[i].username = file.users[j].username => i = j

\* C2 witness: a document of two records, with one register answered 201
\* and one answered 409
C2_Witness ==
    /\ file.kind = "json"
    /\ Len(file.users) = 2
    /\ \E p \in Procs : Done(p) /\ resp[p].status = 201
    /\ \E q \in Procs : ValidRegister(q) /\ Done(q) /\ resp[q].status = 409

\* no save_users is between its open() and its write
NoSaveInFlight ==
    /\ \A p \in Procs : pc[p] # "r_write"
    /\ boot # "b_write"

\* C3: the document only grows by appends, so whenever no save is under
\* way (and no startup has taken part) it is a document that holds the
\* record of every register request that was answered 201.
C3_RegisteredRecordsStay ==
    (NoSaveInFlight /\ starts = 0) =>
        \A p \in Procs :
            (ValidRegister(p) /\ Done(p) /\ resp[p].status = 201)
            => /\ file.kind = "json"
               /\ \E i \in 1..Len(file.users) : file.users[i] = NewRecord(p)

\* C4: no login or register request gets the JSONDecodeError of a read that
\* met a document another request was still writing (startups left aside).
C4_ReadsSeeWholeDocument ==
    starts = 0 =>
        \A p \in Procs :
            (Done(p) /\ (IsLogin(p) \/ IsRegister(p))) => resp[p] # JSONDecodeError

\* q's register request arrived after p's had responded, for the same name
Resubmits(p, q) ==
    /\ ValidRegister(p) /\ ValidRegister(q)
    /\ req[p].username = req[q].username
    /\ p \in after[q]

\* p's is the first register request for its username
FirstRegister(p) ==
    /\ ValidRegister(p)
    /\ \A r \in after[p] : ~(ValidRegister(r) /\ req[r].username = req[p].username)

C6_LoginTotal ==
    \A p \in Procs :
        (IsLogin(p) /\ Done(p)) =>
            LET i == FindUser(users[p], req[p].username)
                good == /\ i # 0
                        /\ req[p].password # None
                        /\ check_password_hash(users[p][i].password, req[p].password)
            IN /\ resp[p].status \in {200, 401}
               /\ resp[p].status = 200 <=> good
               /\ resp[p].status = 200 =>
                    /\ resp[p].token.kind = "jwt"
                    /\ resp[p].username = req[p].username
               /\ resp[p].status = 401 =>
                    /\ resp[p].message # None
                    /\ resp[p].token = NoToken

\* p's login named a user of the store it read and gave a password (a
\* string) that does not verify
WrongPassword(p) ==
    /\ IsLogin(p) /\ Done(p)
    /\ HasUser(users[p], req[p].username)
    /\ req[p].password # None
    /\ ~check_password_hash(users[p][FindUser(users[p], req[p].username)].password,
                            req[p].password)

\* p's login named a user the store it read has no record of
UnknownUser(p) ==
    /\ IsLogin(p) /\ Done(p)
    /\ resp[p] # JSONDecodeError
    /\ ~HasUser(users[p], req[p].username)

\* C7: against the same store, a login with a wrong password and a login
\* with an unknown username get the identical response: 401, the same
\* message, no token.
C7_SameFailureResponse ==
    \A p \in Procs, q \in Procs :
        (WrongPassword(p) /\ UnknownUser(q) /\ users[p] = users[q])
        => /\ resp[p] = resp[q]
           /\ resp[p].status = 401
           /\ resp[p].token = NoToken

\* C7 witness: the two kinds of failed login against one non-empty store
C7_Witness ==
    \E p \in Procs, q \in Procs :
        /\ WrongPassword(p) /\ UnknownUser(q)
        /\ users[p] = users[q]
        /\ Truthy(req[q].username)

\* worker p takes a register request in this step
RegisterArrives(p) == pc[p] = "idle" /\ req'[p].kind = "register"

\* C8: the step that takes a register request with an absent or empty
\* username or password answers it 400 at once, before any load_users, and
\* leaves users.json as it is.
C8_MissingFieldRejected ==
    [][\A p \in Procs :
          (RegisterArrives(p) /\ (req'[p].username \in {None, ""}
                                   \/ req'[p].password \in {None, ""}))
          => /\ pc'[p] = "done"
             /\ resp'[p].status = 400
             /\ file' = file]_vars

\* C8 witness: register requests rejected for each of the two fields, one
\* of them while no users.json exists
C8_Witness ==
    \E p \in Procs, q \in Procs :
        /\ IsRegister(p) /\ Done(p) /\ resp[p].status = 400
        /\ ~Truthy(req[p].username)
        /\ IsRegister(q) /\ Done(q) /\ resp[q].status = 400
        /\ Truthy(req[q].username) /\ ~Truthy(req[q].password)
        /\ file = FileAbsent

\* the logins answered 200
Logins200 == {p \in Procs : IsLogin(p) /\ Done(p) /\ resp[p].status = 200}

\* worker q's guarded request got past jwt_required()
PassedAuth(q) ==
    /\ IsGuarded(q)
    /\ \/ pc[q] = "g_body"
       \/ Done(q) /\ resp[q].status \in {200, 400}

\* C9 as claimed: at any time of the process's life the token of a login
\* answered 200 decodes, to the username that logged in, and every token
\* the process did not issue is rejected.
C9_TokenAlwaysAccepted ==
    /\ \A p \in Logins200 :
         /\ decode_token(resp[p].token, secret, now) = "ok"
         /\ Identity(resp[p].token) = req[p].username
    /\ \A tok \in TokenInputs \ Issued : decode_token(tok, secret, now) # "ok"

\* C9 amended: the token of a login answered 200 decodes, to the username
\* that logged in, until it expires; every token the process did not issue
\* is rejected, and every guarded request that got past jwt_required()
\* carried the token of some login.
C9_TokenAcceptedUntilExpiry ==
    /\ \A p \in Logins200 :
         LET tok == resp[p].token IN
           /\ Identity(tok) = req[p].username
           /\ now < tok.iat + JWT_ACCESS_TOKEN_EXPIRES
              => decode_token(tok, secret, now) = "ok"
    /\ \A tok \in TokenInputs \ Issued : decode_token(tok, secret, now) # "ok"
    /\ \A q \in Procs :
         PassedAuth(q) =>
            \E p \in Logins200 :
               /\ req[q].token = resp[p].token
               /\ Identity(req[q].token) = req[p].username

\* C9 witness: a guarded request served with the token a login returned
C9_Witness ==
    \E p \in Logins200, q \in Procs :
        /\ IsGuarded(q) /\ Done(q) /\ resp[q].status = 200
        /\ req[q].token = resp[p].token

\* C10: a guarded handler body runs only for a request whose token the
\* server issued, and a request without such a token is answered 401.
C10_GuardedNeeds401 ==
    \A q \in Procs :
        /\ PassedAuth(q) => req[q].token \in Issued
        /\ (IsGuarded(q) /\ Done(q) /\ req[q].token \notin Issued)
           => resp[q].status = 401


\* the registers answered 201
Registered == {p \in Procs : ValidRegister(p) /\ Done(p) /\ resp[p].status = 201}

\* C11: once a restart has happened and the startup that follows it is over,
\* load_users returns a list that holds the record of every register that
\* was answered 201, and a login with that username and password is
\* answered 200.
C11_RecordsSurviveRestart ==
    (starts >= 1 /\ Quiet) =>
        \A p \in Registered :
            LET lr == load_users(file) IN
              /\ lr.ok
              /\ \E i \in 1..Len(lr.users) :
                    /\ lr.users[i].username = req[p].username
                    /\ check_password_hash(lr.users[i].password, req[p].password)
              /\ LoginResponse(lr.users, req[p].username, req[p].password,
                               secret, now).status = 200

\* worker p reads users.json in this step: the load_users of register, or
\* the whole of login
ReadsFile(p) ==
    \/ pc[p] = "r_load" /\ pc'[p] \in {"r_open", "done"}
    \/ pc[p] = "idle" /\ req'[p].kind = "login"

\* the startup reads users.json in this step
BootReadsFile == boot = "b_load" /\ boot' # "b_load" /\ starts' = starts

C13_ReadingCreatesNothing ==
    [][/\ \A p \in Procs :
            /\ (pc[p] = "idle" /\ req'[p].kind = "login") => file' = file
            /\ (ReadsFile(p) /\ file = FileAbsent) =>
                  /\ file' = FileAbsent
                  /\ req'[p].kind = "login" =>
                        (users'[p] = <<>> /\ resp'[p].status = 401)
                  /\ req'[p].kind = "register" =>
                        (pc'[p] = "r_open" /\ Len(users'[p]) = 1)
       /\ (BootReadsFile /\ file = FileAbsent) =>
            (file' = FileAbsent /\ boot' = "b_open" /\ Len(bootUsers') = 1)]_vars

\* C13 witness: a login for the seed user's credentials answered 401 while
\* users.json still does not exist
C13_Witness ==
    \E p \in Procs :
        /\ IsLogin(p) /\ Done(p) /\ resp[p].status = 401
        /\ req[p].username = "testuser" /\ req[p].password = "password123"
        /\ file = FileAbsent

\* C14: with startups running beside at most one register request (so that
\* no two registers race), the document, whenever no save is under way,
\* holds at most one testuser record and the record of the register that
\* was answered 201.
C14_StartupLosesNothing ==
    (/\ NoSaveInFlight
     /\ starts >= 1
     /\ Cardinality({p \in Procs : ValidRegister(p)}) <= 1)
    => /\ file.kind = "json" => CountUser(file.users, "testuser") <= 1
       /\ \A p \in Registered :
            /\ file.kind = "json"
            /\ \E i \in 1..Len(file.users) :
                  /\ file.users[i].username = req[p].username
                  /\ check_password_hash(file.users[i].password, req[p].password)


\* C15: at a restart, every token issued so far is from then on refused as
\* invalid when the key was generated at import, and keeps decoding (if it
\* did, that is if it had not expired) when the key comes from the
\* environment; and a guarded request that presents an issued token is let
\* through when the token was signed with the present key and has not
\* expired, and answered 422 when it was signed with another key.
C15_TokensAcrossRestart ==
    [][/\ starts' = starts + 1 =>
            \A tok \in Issued :
                IF secret = ServerSecret
                THEN decode_token(tok, secret, now) = "ok"
                        => decode_token(tok, secret', now') = "ok"
                ELSE decode_token(tok, secret', now') = "invalid"
       /\ \A q \in Procs :
            (pc[q] = "idle" /\ req'[q].kind = "locations"
                            /\ req'[q].token \in Issued) =>
                LET tok == req'[q].token IN
                  /\ (tok.sig.key = secret /\ now < tok.iat + JWT_ACCESS_TOKEN_EXPIRES)
                        => pc'[q] = "g_body"
                  /\ tok.sig.key # secret
                        => (pc'[q] = "done" /\ resp'[q].status = 422)]_vars

\* C15 witness: the token of a login is refused as invalid by a guarded
\* request, which takes a restart with a generated key in between
C15_Witness ==
    \E p \in Logins200, q \in Procs :
        /\ IsGuarded(q) /\ Done(q)
        /\ req[q].token = resp[p].token
        /\ resp[q].status = 422

\* two guarded requests that are equal (same route, token and arguments),
\* of which none was refused as expired, got equal responses
EqualGuardedAnswers ==
    \A p \in Procs, q \in Procs :
        (/\ IsGuarded(p) /\ Done(p)
         /\ IsGuarded(q) /\ Done(q)
         /\ req[p] = req[q]
         /\ resp[p].message # "Token has expired"
         /\ resp[q].message # "Token has expired")
        => resp[p] = resp[q]

\* worker q authenticates a guarded request, or runs its body, in this step
GuardedStep(q) ==
    \/ pc[q] = "idle" /\ req'[q].kind \in {"classify", "locations"}
    \/ pc[q] = "g_body" /\ pc'[q] = "done"

C17_StoredCredentialIsHash ==
    file.kind = "json" =>
        \A i \in 1..Len(file.users) :
            \/ \E n \in 1..starts :
                  /\ file.users[i].username = "testuser"
                  /\ file.users[i].password
                        = generate_password_hash("password123", 0 - n)
            \/ \E p \in Procs :
                  /\ ValidRegister(p)
                  /\ pc[p] \in {"r_write", "done"}
                  /\ file.users[i].username = req[p].username
                  /\ file.users[i].password
                        = generate_password_hash(req[p].password, p)

\* C17 witness: a document that holds the seed record and the record of a
\* register request
C17_Witness ==
    /\ file.kind = "json"
    /\ Len(file.users) = 2
    /\ file.users[1].username = "testuser"
    /\ \E p \in Registered : file.users[2].username = req[p].username

====
